---- MODULE Spec2Model ----
(***************************************************************************)
(* Model of Youtube_checker.py: driver provisioning, session start, the   *)
(* one-time consent step, get_recent_video_info (the recency-gated        *)
(* extractor) and the per-target loop with its finally block.             *)
(*                                                                         *)
(* Time is counted in minutes.  Python's None is the empty tuple for      *)
(* tuple- and datetime-valued variables and the string "None" for the     *)
(* driver, the service and the driver path.                                *)
(***************************************************************************)
EXTENDS Integers, Sequences, FiniteSets, TLC

VARIABLES
    pc,               \* position of the main program / of the running call
    system,           \* platform.system().lower()
    arch,             \* platform.machine().lower()
    geckoExists,      \* os.path.exists(gecko_path)
    geckodriver_path, \* line 137
    service,          \* lines 136-139
    driver,           \* lines 134, 143
    raised,           \* an exception is propagating out of the main try block
    idx,              \* position of the for loop in youtubers_to_check
    page,             \* the page the browser session shows
    log,              \* download and browser operations issued so far, in order
    clock,            \* wall clock, minutes
    title,            \* locals of get_recent_video_info
    video_url,
    date_str,
    upload_date,
    now_aware,
    uploader,
    description_text,
    video_info,       \* value returned by the last call (line 157)
    called,           \* channel_url of every call of get_recent_video_info
    returned,         \* value returned by every finished call, in call order
    consent,          \* outcome of the consent step: "pending", "clicked", "failed"
    stdout            \* texts printed by line 160, in order

vars == <<pc, system, arch, geckoExists, geckodriver_path, service, driver,
          raised, idx, page, log, clock, title, video_url, date_str,
          upload_date, now_aware, uploader, description_text, video_info,
          called, returned, consent, stdout>>

-----------------------------------------------------------------------------
(* Bounds *)

\* largest number of minutes that may pass between two statements
MaxTick == 1

\* largest clock value at process start
MaxStart == 1

-----------------------------------------------------------------------------
(* Program constants and the values of the outside world *)

None == <<>>

NoneStr == "None"

youtubers_to_check ==
    << "https://www.youtube.com/@mrbeast",
       "https://www.youtube.com/@linustechtips" >>

\* timedelta(hours=1), in minutes
Hour == 60

\* the URL the consent step navigates to, as written in the code
ConsentUrl == "httpshttps://www.youtube.com"

\* the service's root page
RootUrl == "https://www.youtube.com"

ListingUrl(channel_url) == channel_url \o "/videos"

\* href of the first grid item of a channel's listing page
HrefOf(channel_url) == channel_url \o "/watch?v=1"

\* title attribute of the first grid item of a channel's listing page
TitleOf(channel_url) == "Video of " \o channel_url

\* text of the channel-name element of a detail page
PublisherOf(url) == "Publisher of " \o url

\* text of the expanded description container of a detail page
DescriptionOf(url) == "Description of " \o url

\* URLs whose scheme the browser can load
Loadable ==
    {RootUrl}
    \cup {ListingUrl(youtubers_to_check[k]) : k \in 1..Len(youtubers_to_check)}
    \cup {HrefOf(youtubers_to_check[k]) : k \in 1..Len(youtubers_to_check)}

ErrorPage == "about:neterror"

BlankPage == "about:blank"

Systems == {"linux", "darwin"}

Machines == {"aarch64", "x86_64", "arm64"}

\* texts the second metadata span can show
DateStrings ==
    { "45 minutes ago", "59 minutes ago", "60 minutes ago", "61 minutes ago",
      "3 hours ago", "in 5 minutes", "not a date" }

\* dateparser.parse: minutes before the parser's "now", or None
ParseOffset(s) ==
    CASE s = "45 minutes ago" -> <<45>>
      [] s = "59 minutes ago" -> <<59>>
      [] s = "60 minutes ago" -> <<60>>
      [] s = "61 minutes ago" -> <<61>>
      [] s = "3 hours ago"    -> <<180>>
      [] s = "in 5 minutes"   -> <<-5>>
      [] OTHER                -> None

Parse(s, now) ==
    IF ParseOffset(s) = None THEN None ELSE <<now - ParseOffset(s)[1]>>

\* the recency test with the boundary included
IsRecentInclusive(now, upload) == (now - upload) <= Hour

\* a recency test that lets every item through
IsRecentAlways(now, upload) == TRUE

\* the recency test of line 101
IsRecent(now, upload) == (now - upload) < Hour

\* the tuple with publisher and title exchanged
MakeInfoSwapped(u, t, d, l, desc) == <<t, u, d, l>>

\* the tuple built by line 112
MakeInfo(u, t, d, l, desc) == <<u, t, d, l>>

\* the printed text with the title in place of the publish-time text
FormatRecordNoDate(info) ==
    info[1] \o " - " \o info[2] \o "\n" \o info[2] \o "\nLink: " \o info[4]

\* the text printed by line 160
FormatRecord(info) ==
    info[1] \o " - " \o info[2] \o "\n" \o info[3] \o "\nLink: " \o info[4]

\* lines 43-49: the download URL chosen for the host, or None
GeckoUrl(sys, mach) ==
    IF sys = "linux" /\ mach = "aarch64"
    THEN <<"geckodriver-v0.36.0-linux-aarch64.tar.gz">>
    ELSE IF sys = "linux" /\ mach = "x86_64"
    THEN <<"geckodriver-v0.36.0-linux64.tar.gz">>
    ELSE None

GeckoPath == "/tmp/geckodriver"

-----------------------------------------------------------------------------
(* Operations on the outside world, as log entries *)

OpDownload(url) == [op |-> "download", arg |-> url]
OpStart(svc) == [op |-> "start", arg |-> svc]
OpGet(url)   == [op |-> "get", arg |-> url]
OpWait(what) == [op |-> "wait", arg |-> what]
OpFind(what) == [op |-> "find", arg |-> what]
OpClick(what) == [op |-> "click", arg |-> what]
OpQuit       == [op |-> "quit", arg |-> ""]

-----------------------------------------------------------------------------

Init ==
    /\ pc = "provision"
    /\ system \in Systems
    /\ arch \in Machines
    /\ geckoExists \in BOOLEAN
    /\ geckodriver_path = NoneStr
    /\ service = NoneStr
    /\ driver = NoneStr
    /\ raised = FALSE
    /\ idx = 1
    /\ page = BlankPage
    /\ log = <<>>
    /\ clock \in 0..MaxStart
    /\ title = ""
    /\ video_url = ""
    /\ date_str = ""
    /\ upload_date = None
    /\ now_aware = None
    /\ uploader = ""
    /\ description_text = ""
    /\ video_info = None
    /\ called = <<>>
    /\ returned = <<>>
    /\ consent = "pending"
    /\ stdout = <<>>

-----------------------------------------------------------------------------
(* driver.get(url): the page shown afterwards, or "raise" *)

NavOutcomes(url) ==
    IF url \in Loadable THEN {url, "raise"} ELSE {ErrorPage, "raise"}

-----------------------------------------------------------------------------
(* Start-up: lines 134-143 *)

callLocals == <<title, video_url, date_str, upload_date, now_aware, uploader,
                description_text>>

hostVars == <<system, arch>>

loopVars == <<idx, called, returned, video_info, stdout>>

\* a provisioning failure that is swallowed: the program goes on without a path
ProvisionFailedSwallowed ==
    /\ pc' = "start"
    /\ UNCHANGED <<raised, geckodriver_path, service, geckoExists>>

\* get_geckodriver_path raised: the exception leaves the program (line 137 is
\* outside every try block)
ProvisionFailed ==
    /\ pc' = "crashed"
    /\ raised' = TRUE
    /\ UNCHANGED <<geckodriver_path, service, geckoExists>>

\* lines 35-66 and 136-139
Provision ==
    /\ pc = "provision"
    /\ IF GeckoUrl(system, arch) = None
       THEN /\ pc' = "start"
            /\ UNCHANGED <<geckodriver_path, service, geckoExists, raised, log>>
       ELSE IF geckoExists
       THEN /\ geckodriver_path' = GeckoPath
            /\ service' = GeckoPath
            /\ pc' = "start"
            /\ UNCHANGED <<geckoExists, raised, log>>
       ELSE /\ log' = Append(log, OpDownload(GeckoUrl(system, arch)[1]))
            /\ \E ok \in BOOLEAN :
                 IF ok
                 THEN /\ geckoExists' = TRUE
                      /\ geckodriver_path' = GeckoPath
                      /\ service' = GeckoPath
                      /\ pc' = "start"
                      /\ UNCHANGED raised
                 ELSE ProvisionFailed
    /\ UNCHANGED <<hostVars, driver, page, clock, callLocals, loopVars, consent>>

\* line 143
StartSession ==
    /\ pc = "start"
    /\ log' = Append(log, OpStart(service))
    /\ \E ok \in BOOLEAN :
         IF ok
         THEN /\ driver' = "session"
              /\ pc' = "consent_get"
              /\ UNCHANGED raised
         ELSE /\ raised' = TRUE
              /\ pc' = "finally"
              /\ UNCHANGED driver
    /\ UNCHANGED <<hostVars, geckoExists, geckodriver_path, service, page,
                   clock, callLocals, loopVars, consent>>

-----------------------------------------------------------------------------
(* Consent step: lines 145-154 *)

\* a consent failure that leaves the try block
ConsentFailedPropagates ==
    /\ consent' = "failed"
    /\ pc' = "finally"
    /\ raised' = TRUE

\* lines 153-154: the handler of the consent step
ConsentFailed ==
    /\ consent' = "failed"
    /\ pc' = "loop"
    /\ UNCHANGED raised

\* line 146
ConsentGet ==
    /\ pc = "consent_get"
    /\ log' = Append(log, OpGet(ConsentUrl))
    /\ \E out \in NavOutcomes(ConsentUrl) :
         IF out = "raise"
         THEN ConsentFailed /\ UNCHANGED page
         ELSE /\ page' = out
              /\ pc' = "consent_wait"
              /\ UNCHANGED <<consent, raised>>
    /\ UNCHANGED <<hostVars, geckoExists, geckodriver_path, service, driver,
                   clock, callLocals, loopVars>>

\* lines 148-152: the wait ends with the button, which is then clicked, or
\* with a timeout
ConsentWait ==
    /\ pc = "consent_wait"
    /\ \E shown \in BOOLEAN, ok \in BOOLEAN :
         IF page = RootUrl /\ shown
         THEN /\ log' = log \o <<OpWait("Accept all"), OpClick("Accept all")>>
              /\ IF ok
                 THEN /\ consent' = "clicked"
                      /\ pc' = "loop"
                      /\ UNCHANGED raised
                 ELSE ConsentFailed
         ELSE /\ log' = Append(log, OpWait("Accept all"))
              /\ ConsentFailed
    /\ UNCHANGED <<hostVars, geckoExists, geckodriver_path, service, driver,
                   page, clock, callLocals, loopVars>>

-----------------------------------------------------------------------------
(* get_recent_video_info: lines 69-119 *)

startVars == <<hostVars, geckoExists, geckodriver_path, service, driver,
               raised, consent>>

\* a return statement of get_recent_video_info, seen from line 157
Return(v) ==
    /\ video_info' = v
    /\ returned' = Append(returned, v)
    /\ pc' = "after_call"

\* a handler that returns whatever was extracted so far
CallFailedPartial ==
    Return(MakeInfo(uploader, title, date_str, video_url, description_text))

\* lines 117-119: the blanket handler
CallFailed == Return(None)

channel_url == youtubers_to_check[idx]

\* lines 156-157: the loop takes the next target and calls the function
LoopNext ==
    /\ pc = "loop"
    /\ idx <= Len(youtubers_to_check)
    /\ called' = Append(called, channel_url)
    /\ pc' = "listing_get"
    /\ title' = ""
    /\ video_url' = ""
    /\ date_str' = ""
    /\ upload_date' = None
    /\ now_aware' = None
    /\ uploader' = ""
    /\ description_text' = ""
    /\ video_info' = None
    /\ UNCHANGED <<startVars, idx, page, log, clock, returned, stdout>>

\* line 76
ListingGet ==
    /\ pc = "listing_get"
    /\ log' = Append(log, OpGet(ListingUrl(channel_url)))
    /\ \E out \in NavOutcomes(ListingUrl(channel_url)) :
         IF out = "raise"
         THEN CallFailed /\ UNCHANGED page
         ELSE /\ page' = out
              /\ pc' = "wait_container"
              /\ UNCHANGED <<video_info, returned>>
    /\ UNCHANGED <<startVars, idx, called, clock, callLocals, stdout>>

\* line 79
WaitContainer ==
    /\ pc = "wait_container"
    /\ log' = Append(log, OpWait("ytd-rich-grid-media"))
    /\ \E present \in BOOLEAN :
         IF present
         THEN pc' = "extract_title" /\ UNCHANGED <<video_info, returned>>
         ELSE CallFailed
    /\ UNCHANGED <<startVars, idx, called, page, clock, callLocals, stdout>>

\* lines 82-84
ExtractTitle ==
    /\ pc = "extract_title"
    /\ log' = Append(log, OpFind("video-title-link"))
    /\ \E found \in BOOLEAN :
         IF found
         THEN /\ title' = TitleOf(channel_url)
              /\ video_url' = HrefOf(channel_url)
              /\ pc' = "extract_date"
              /\ UNCHANGED <<video_info, returned>>
         ELSE CallFailed /\ UNCHANGED <<title, video_url>>
    /\ UNCHANGED <<startVars, idx, called, page, clock, date_str, upload_date,
                   now_aware, uploader, description_text, stdout>>

\* lines 87-88: the metadata line has 0..2 spans, the second one is the date
ExtractDate ==
    /\ pc = "extract_date"
    /\ log' = Append(log, OpFind("metadata-line"))
    /\ \E spans \in 0..2, text \in DateStrings :
         IF spans >= 2
         THEN /\ date_str' = text
              /\ pc' = "parse_date"
              /\ UNCHANGED <<video_info, returned>>
         ELSE CallFailed /\ UNCHANGED date_str
    /\ UNCHANGED <<startVars, idx, called, page, clock, title, video_url,
                   upload_date, now_aware, uploader, description_text, stdout>>

\* lines 91-94
ParseDate ==
    /\ pc = "parse_date"
    /\ upload_date' = Parse(date_str, clock)
    /\ IF upload_date' = None
       THEN Return(None)
       ELSE pc' = "gate" /\ UNCHANGED <<video_info, returned>>
    /\ UNCHANGED <<startVars, idx, called, page, log, clock, title, video_url,
                   date_str, now_aware, uploader, description_text, stdout>>

\* lines 97-101 and 113-115: time may have passed since the date was parsed
Gate ==
    /\ pc = "gate"
    /\ \E d \in 0..MaxTick : clock' = clock + d
    /\ now_aware' = <<clock'>>
    /\ IF IsRecent(now_aware'[1], upload_date[1])
       THEN pc' = "detail_get" /\ UNCHANGED <<video_info, returned>>
       ELSE Return(None)
    /\ UNCHANGED <<startVars, idx, called, page, log, title, video_url,
                   date_str, upload_date, uploader, description_text, stdout>>

\* line 103
DetailGet ==
    /\ pc = "detail_get"
    /\ log' = Append(log, OpGet(video_url))
    /\ \E out \in NavOutcomes(video_url) :
         IF out = "raise"
         THEN CallFailed /\ UNCHANGED page
         ELSE /\ page' = out
              /\ pc' = "wait_uploader"
              /\ UNCHANGED <<video_info, returned>>
    /\ UNCHANGED <<startVars, idx, called, clock, callLocals, stdout>>

\* line 106
WaitUploader ==
    /\ pc = "wait_uploader"
    /\ log' = Append(log, OpWait("ytd-channel-name #text"))
    /\ \E visible \in BOOLEAN :
         IF visible
         THEN /\ uploader' = PublisherOf(page)
              /\ pc' = "click_expand"
              /\ UNCHANGED <<video_info, returned>>
         ELSE CallFailed /\ UNCHANGED uploader
    /\ UNCHANGED <<startVars, idx, called, page, clock, title, video_url,
                   date_str, upload_date, now_aware, description_text, stdout>>

\* line 107
ClickExpand ==
    /\ pc = "click_expand"
    /\ \E clickable \in BOOLEAN :
         IF clickable
         THEN /\ log' = log \o <<OpWait("expand"), OpClick("expand")>>
              /\ pc' = "read_description"
              /\ UNCHANGED <<video_info, returned>>
         ELSE /\ log' = Append(log, OpWait("expand"))
              /\ CallFailed
    /\ UNCHANGED <<startVars, idx, called, page, clock, callLocals, stdout>>

\* lines 108-112
ReadDescription ==
    /\ pc = "read_description"
    /\ log' = Append(log, OpWait("description-inline-expander"))
    /\ \E visible \in BOOLEAN :
         IF visible
         THEN /\ description_text' = DescriptionOf(page)
              /\ Return(MakeInfo(uploader, title, date_str, video_url,
                                 description_text'))
         ELSE CallFailed /\ UNCHANGED description_text
    /\ UNCHANGED <<startVars, idx, called, page, clock, title, video_url,
                   date_str, upload_date, now_aware, uploader, stdout>>

-----------------------------------------------------------------------------
(* The rest of the main program: lines 158-164 *)

\* a loop that stops at the first target without a result
AfterCallBreak ==
    /\ pc = "after_call"
    /\ stdout' = IF video_info # None
                 THEN Append(stdout, FormatRecord(video_info))
                 ELSE stdout
    /\ idx' = IF video_info # None THEN idx + 1 ELSE Len(youtubers_to_check) + 1
    /\ pc' = "loop"
    /\ UNCHANGED <<startVars, page, log, clock, callLocals, video_info, called,
                   returned>>

\* lines 158-160
AfterCall ==
    /\ pc = "after_call"
    /\ stdout' = IF video_info # None
                 THEN Append(stdout, FormatRecord(video_info))
                 ELSE stdout
    /\ idx' = idx + 1
    /\ pc' = "loop"
    /\ UNCHANGED <<startVars, page, log, clock, callLocals, video_info, called,
                   returned>>

\* line 156: the loop is exhausted
LoopEnd ==
    /\ pc = "loop"
    /\ idx > Len(youtubers_to_check)
    /\ pc' = "finally"
    /\ UNCHANGED <<startVars, idx, page, log, clock, callLocals, video_info,
                   called, returned, stdout>>

\* a release that is skipped when an exception is propagating
FinallyNoQuitOnRaise ==
    /\ pc = "finally"
    /\ log' = IF driver # NoneStr /\ ~raised THEN Append(log, OpQuit) ELSE log
    /\ pc' = IF raised THEN "crashed" ELSE "done"
    /\ UNCHANGED <<startVars, idx, page, clock, callLocals, video_info, called,
                   returned, stdout>>

\* lines 161-164
Finally ==
    /\ pc = "finally"
    /\ log' = IF driver # NoneStr THEN Append(log, OpQuit) ELSE log
    /\ pc' = IF raised THEN "crashed" ELSE "done"
    /\ UNCHANGED <<startVars, idx, page, clock, callLocals, video_info, called,
                   returned, stdout>>

\* positions inside the try block of lines 142-160 with a live session
InTry ==
    { "consent_get", "consent_wait", "loop", "listing_get",
      "wait_container", "extract_title", "extract_date", "parse_date", "gate",
      "detail_get", "wait_uploader", "click_expand", "read_description",
      "after_call" }

\* an exception that no "except Exception" clause handles (KeyboardInterrupt,
\* SystemExit) is raised inside the try block: control passes to line 161
Interrupt ==
    /\ pc \in InTry
    /\ raised' = TRUE
    /\ pc' = "finally"
    /\ UNCHANGED <<hostVars, geckoExists, geckodriver_path, service, driver,
                   consent, idx, page, log, clock, callLocals, video_info,
                   called, returned, stdout>>

-----------------------------------------------------------------------------

Next ==
    \/ Provision
    \/ StartSession
    \/ ConsentGet
    \/ ConsentWait
    \/ LoopNext
    \/ ListingGet
    \/ WaitContainer
    \/ ExtractTitle
    \/ ExtractDate
    \/ ParseDate
    \/ Gate
    \/ DetailGet
    \/ WaitUploader
    \/ ClickExpand
    \/ ReadDescription
    \/ AfterCall
    \/ LoopEnd
    \/ Finally

Spec == Init /\ [][Next]_vars

NextInterruptible == Next \/ Interrupt

SpecInterruptible == Init /\ [][NextInterruptible]_vars

-----------------------------------------------------------------------------
(* Vocabulary of the properties *)

Positions(entry) == {k \in DOMAIN log : log[k] = entry}

PositionsOfOp(name) == {k \in DOMAIN log : log[k].op = name}

Targets == 1..Len(youtubers_to_check)

\* the call in progress, or the last one finished
CurrentChannel == called[Len(called)]

\* age computed by the call, once the gate has read the clock
Age == now_aware[1] - upload_date[1]

GateDecided == Len(called) > 0 /\ upload_date # None /\ now_aware # None

\* the call has asked the session, or is about to ask it, for the detail page
DetailAttempted ==
    /\ Len(called) > 0
    /\ \/ pc = "detail_get"
       \/ Positions(OpGet(HrefOf(CurrentChannel))) # {}

-----------------------------------------------------------------------------
(* C1: once the call has computed age = now - parsed timestamp, the detail *)
(* page is asked for if and only if age is below 60 minutes: 59 is fresh,  *)
(* 60 and 61 are stale, a negative age is fresh.                           *)
C1_GateStrictlyBelowOneHour ==
    GateDecided =>
        /\ DetailAttempted <=> Age < 60
        /\ Age = 59 => DetailAttempted
        /\ Age = 60 => ~DetailAttempted
        /\ Age = 61 => ~DetailAttempted
        /\ Age < 0 => DetailAttempted

C1_Witness_ExactlyOneHourIsStale ==
    /\ GateDecided
    /\ Age = 60
    /\ pc = "after_call"
    /\ ~DetailAttempted

(* C2: the detail page of a target is asked for only after the listing     *)
(* page of that target was asked for, the date was parsed and the age was  *)
(* below one hour; a call that ends with a stale or unparsed date returns  *)
(* None and never asked for the detail page.                               *)
C2_DetailOnlyAfterFreshGate ==
    /\ DetailAttempted =>
          /\ upload_date # None
          /\ now_aware # None
          /\ Age < 60
          /\ \A d \in Positions(OpGet(HrefOf(CurrentChannel))) :
               \E l \in Positions(OpGet(ListingUrl(CurrentChannel))) : l < d
    /\ (pc = "after_call" /\ (upload_date = None \/ Age >= 60)) =>
          /\ video_info = None
          /\ returned[Len(returned)] = None
          /\ Positions(OpGet(HrefOf(CurrentChannel))) = {}
    /\ \A k \in Targets :
          Positions(OpGet(HrefOf(youtubers_to_check[k]))) # {} => Len(called) >= k

C2_Witness_StaleAfterFresh ==
    /\ pc = "after_call"
    /\ Len(called) = 2
    /\ Positions(OpGet(HrefOf(youtubers_to_check[1]))) # {}
    /\ GateDecided
    /\ Age >= 60
    /\ video_info = None
    /\ Positions(OpGet(HrefOf(CurrentChannel))) = {}

\* every local of the call holds a value read from the pages
AllExtracted ==
    /\ title = TitleOf(CurrentChannel)
    /\ video_url = HrefOf(CurrentChannel)
    /\ ParseOffset(date_str) # None
    /\ GateDecided
    /\ uploader = PublisherOf(video_url)
    /\ description_text = DescriptionOf(video_url)

(* C3: every finished call returned None or a tuple whose fields were all  *)
(* read; a call in which any step failed returned None; no exception is    *)
(* propagating while the loop runs.                                        *)
C3_RecordOrNone ==
    /\ \A k \in DOMAIN returned :
          \/ returned[k] = None
          \/ /\ Len(returned[k]) >= 4
             /\ \A f \in DOMAIN returned[k] : returned[k][f] # ""
    /\ pc = "after_call" => (video_info # None <=> AllExtracted)
    /\ pc \in InTry => ~raised

C3_Witness_PublisherTimeout ==
    /\ pc = "after_call"
    /\ page = video_url
    /\ log[Len(log)] = OpWait("ytd-channel-name #text")
    /\ uploader = ""
    /\ video_info = None

(* C4, as stated: a returned record has five fields, the fifth being the   *)
(* description read from the detail page.                                  *)
C4_Original_RecordHasDescription ==
    (pc = "after_call" /\ video_info # None) =>
        /\ Len(video_info) = 5
        /\ video_info[5] = description_text

(* C4, amended: a returned record is the four fields publisher, title, raw *)
(* publish-time text and detail URL; the description was read before the   *)
(* return but is not a field of the record; a record is returned only if   *)
(* the age was below one hour.                                             *)
C4_RecordHasFourFields ==
    (pc = "after_call" /\ video_info # None) =>
        /\ video_info = <<PublisherOf(video_url), TitleOf(CurrentChannel),
                          date_str, HrefOf(CurrentChannel)>>
        /\ description_text = DescriptionOf(video_url)
        /\ \A f \in DOMAIN video_info : video_info[f] # description_text
        /\ GateDecided
        /\ Age < 60

C4_Witness_RecordReturned ==
    /\ pc = "after_call"
    /\ video_info # None
    /\ description_text = DescriptionOf(video_url)

\* the run is over
Ended == pc \in {"done", "crashed"}

SessionStarted == driver # NoneStr

(* C5: with a started session the targets are called in list order, one    *)
(* call at a time, each listing page asked for at most once; when the run  *)
(* ends every target was called and finished exactly once, whatever the    *)
(* earlier calls returned.                                                 *)
C5_EveryTargetOnceInOrder ==
    /\ Len(called) <= Len(youtubers_to_check)
    /\ \A k \in DOMAIN called : called[k] = youtubers_to_check[k]
    /\ Len(returned) <= Len(called)
    /\ Len(called) <= Len(returned) + 1
    /\ \A k \in Targets :
          Cardinality(Positions(OpGet(ListingUrl(youtubers_to_check[k])))) <= 1
    /\ \A j, k \in Targets :
          \A a \in Positions(OpGet(ListingUrl(youtubers_to_check[j]))),
             b \in Positions(OpGet(ListingUrl(youtubers_to_check[k]))) :
               j < k => a < b
    /\ (Ended /\ SessionStarted) =>
          /\ called = youtubers_to_check
          /\ Len(returned) = Len(youtubers_to_check)
          /\ \A k \in Targets :
               Cardinality(Positions(OpGet(ListingUrl(youtubers_to_check[k])))) = 1

C5_Witness_SecondAfterFailedFirst ==
    /\ Ended
    /\ SessionStarted
    /\ returned[1] = None
    /\ returned[2] # None

(* C6: no operation is issued after the session was quit; a run that ends  *)
(* with a started session has quit it exactly once, also when an exception *)
(* left the loop; a run whose session never started issues no quit.        *)
C6_SessionReleasedOnce ==
    /\ \A k \in PositionsOfOp("quit") : k = Len(log)
    /\ (Ended /\ SessionStarted) => Cardinality(PositionsOfOp("quit")) = 1
    /\ ~SessionStarted => PositionsOfOp("quit") = {}
    /\ (pc = "finally" /\ ~SessionStarted) => driver = NoneStr /\ raised

C6_Witness_ReleasedAfterInterruptedCall ==
    /\ pc = "crashed"
    /\ SessionStarted
    /\ Len(called) = 1
    /\ Len(returned) = 0
    /\ log[Len(log)] = OpQuit
    /\ Cardinality(PositionsOfOp("quit")) = 1

\* the text line 160 is to print for target k, from the pages of the target
ExpectedLine(k) ==
    PublisherOf(HrefOf(youtubers_to_check[k])) \o " - "
        \o TitleOf(youtubers_to_check[k]) \o "\n"
        \o returned[k][3] \o "\nLink: " \o HrefOf(youtubers_to_check[k])

RECURSIVE ExpectedOutput(_)
ExpectedOutput(n) ==
    IF n = 0 THEN <<>>
    ELSE ExpectedOutput(n - 1)
            \o (IF returned[n] = None THEN <<>> ELSE <<ExpectedLine(n)>>)

(* C7: the printed texts are the records of the targets whose call         *)
(* returned a record, in target order, each with the publish-time text as  *)
(* the listing page showed it; nothing is printed for the other targets.   *)
C7_OutputIsThePresentResults ==
    /\ stdout = ExpectedOutput(idx - 1)
    /\ (pc = "after_call" /\ video_info # None) =>
          /\ video_info[3] = date_str
          /\ date_str \in DateStrings
    /\ (Ended /\ Len(returned) = 2 /\ returned[1] # None /\ returned[2] = None) =>
          /\ Len(stdout) = 1
          /\ stdout[1] = ExpectedLine(1)

C7_Witness_OneFreshOneStale ==
    /\ pc = "done"
    /\ Len(returned) = 2
    /\ returned[1] # None
    /\ returned[1][3] = "45 minutes ago"
    /\ returned[2] = None
    /\ date_str = "3 hours ago"
    /\ stdout = << PublisherOf(HrefOf(youtubers_to_check[1])) \o " - "
                     \o TitleOf(youtubers_to_check[1])
                     \o "\n45 minutes ago\nLink: "
                     \o HrefOf(youtubers_to_check[1]) >>

(* C8: the consent navigation is issued at most once, after the session    *)
(* start and before any operation of a target, and exactly once when the   *)
(* loop is reached; a failed consent step raises nothing, and the run then *)
(* still calls every target and quits the session.                         *)
C8_ConsentOnceAndSwallowed ==
    /\ Cardinality(Positions(OpGet(ConsentUrl))) <= 1
    /\ \A c \in Positions(OpGet(ConsentUrl)) :
          /\ \E j \in PositionsOfOp("start") : j < c
          /\ \A j \in 1..(c - 1) : log[j].op \in {"download", "start"}
    /\ (SessionStarted /\ pc # "consent_get") =>
          Cardinality(Positions(OpGet(ConsentUrl))) = 1
    /\ Len(called) > 0 => consent # "pending"
    /\ consent = "failed" => ~raised
    /\ (consent = "failed" /\ Ended) =>
          /\ called = youtubers_to_check
          /\ Len(returned) = Len(youtubers_to_check)
          /\ log[Len(log)] = OpQuit

C8_Witness_ConsentTimeoutThenAllTargets ==
    /\ pc = "done"
    /\ consent = "failed"
    /\ Positions(OpWait("Accept all")) # {}
    /\ called = youtubers_to_check
    /\ log[Len(log)] = OpQuit

(* C9, as stated: once the consent step is over the session was sent to    *)
(* the root page of the service, and the consent control was clicked       *)
(* before the first target.                                                *)
C9_Original_ConsentVisitsRootPage ==
    consent # "pending" =>
        /\ Positions(OpGet(RootUrl)) # {}
        /\ consent = "clicked" <=> Positions(OpClick("Accept all")) # {}

(* C10: a failed download or a failed session start ends the run with the  *)
(* exception propagating, after one attempt, with no target called and     *)
(* nothing printed; on a host without a download URL nothing is downloaded *)
(* and the session is started without a driver path.                       *)
C10_StartupFailureAborts ==
    /\ Cardinality(PositionsOfOp("download")) <= 1
    /\ Cardinality(PositionsOfOp("start")) <= 1
    /\ (PositionsOfOp("download") # {} /\ ~geckoExists) =>
          /\ pc = "crashed"
          /\ raised
          /\ Len(log) = 1
          /\ called = <<>>
          /\ stdout = <<>>
    /\ (PositionsOfOp("start") # {} /\ ~SessionStarted) =>
          /\ pc \in {"finally", "crashed"}
          /\ raised
          /\ PositionsOfOp("get") = {}
          /\ called = <<>>
          /\ stdout = <<>>
    /\ (~(system = "linux" /\ arch \in {"aarch64", "x86_64"})
            /\ pc # "provision") =>
          /\ geckodriver_path = NoneStr
          /\ service = NoneStr
          /\ PositionsOfOp("download") = {}
          /\ log # <<>> => log[1] = OpStart(NoneStr)
          /\ pc # "start" => log # <<>>

C10_Witness_DownloadFailed ==
    /\ pc = "crashed"
    /\ PositionsOfOp("download") # {}
    /\ ~geckoExists
    /\ called = <<>>

====
